---------------------------- MODULE Spec2Model ----------------------------
(***************************************************************************)
(* A model of megagrep (src/megagrep.py): dictionary loading, keyword and  *)
(* filter compilation, the four line scanners, and the file walker with    *)
(* its Result and Stats records.                                           *)
(*                                                                         *)
(* Text is modelled as a sequence of one-character strings, so that the    *)
(* conversions of the program (split, strip, lower, re.escape, replace,    *)
(* re.compile) are computed character by character.                       *)
(***************************************************************************)
EXTENDS Integers, Sequences, FiniteSets, TLC

(***************************************************************************)
(* Characters and strings                                                  *)
(***************************************************************************)

\* The characters of the model, in code-point order (Python compares
\* strings by code point).
Chars ==
  << " ", "!", "\"", "#", "(", "*", "+", ",", "-", ".", "/", "1", "2", "3",
     ":", ";", "=", "?", "A", "B", "C", "P", "Q", "S", "T", "[", "\\", "]", "_",
     "a", "b", "c", "d", "e", "h", "i", "j", "l", "m", "n", "o", "p",
     "q", "r", "s", "t", "u", "v", "w", "x", "y", "z" >>

Ord(c) == CHOOSE i \in 1..Len(Chars) : Chars[i] = c

\* str.lower() on one character
Lower(c) ==
  CASE c = "A" -> "a"
    [] c = "B" -> "b"
    [] c = "C" -> "c"
    [] c = "P" -> "p"
    [] c = "Q" -> "q"
    [] c = "S" -> "s"
    [] c = "T" -> "t"
    [] OTHER -> c

\* str.lower()
RECURSIVE lower(_)
lower(s) == IF s = << >> THEN << >> ELSE << Lower(Head(s)) >> \o lower(Tail(s))

IsSpace(c) == c = " "

\* str.lstrip() / str.rstrip() / str.strip()
RECURSIVE lstrip(_)
lstrip(s) ==
  IF s # << >> /\ IsSpace(Head(s)) THEN lstrip(Tail(s)) ELSE s

RECURSIVE rstrip(_)
rstrip(s) ==
  IF s # << >> /\ IsSpace(s[Len(s)]) THEN rstrip(SubSeq(s, 1, Len(s) - 1)) ELSE s

strip(s) == rstrip(lstrip(s))

\* str.split(sep) for a one-character separator: the pieces between the
\* separators, empty pieces kept ("a,,b" gives three pieces, "" gives one).
RECURSIVE split_from(_, _, _)
split_from(s, sep, cur) ==
  IF s = << >> THEN << cur >>
  ELSE IF Head(s) = sep THEN << cur >> \o split_from(Tail(s), sep, << >>)
  ELSE split_from(Tail(s), sep, Append(cur, Head(s)))

split(s, sep) == split_from(s, sep, << >>)

\* str.replace(old, new) for a one-character old
RECURSIVE replace(_, _, _)
replace(s, old, new) ==
  IF s = << >> THEN << >>
  ELSE (IF Head(s) = old THEN new ELSE << Head(s) >>) \o replace(Tail(s), old, new)

\* s < t for strings, as Python orders them
RECURSIVE StrLess(_, _)
StrLess(s, t) ==
  IF t = << >> THEN FALSE
  ELSE IF s = << >> THEN TRUE
  ELSE IF Head(s) = Head(t) THEN StrLess(Tail(s), Tail(t))
  ELSE Ord(Head(s)) < Ord(Head(t))

\* s.startswith(p) at 0-based offset pos
StartsAt(s, pos, p) ==
  /\ pos + Len(p) <= Len(s)
  /\ \A k \in 1..Len(p) : s[pos + k] = p[k]

(***************************************************************************)
(* Regular expressions: the part of Python's re the program's patterns use *)
(***************************************************************************)

\* The characters re.escape puts a backslash in front of.
SpecialChars ==
  { "(", ")", "[", "]", "{", "}", "?", "*", "+", "-", "|", "^", "$", "\\",
    ".", "&", "~", "#", " " }

RECURSIVE re_escape(_)
re_escape(s) ==
  IF s = << >> THEN << >>
  ELSE (IF Head(s) \in SpecialChars THEN << "\\", Head(s) >> ELSE << Head(s) >>)
       \o re_escape(Tail(s))

\* One item of a compiled pattern: an atom (a literal character, or "." for
\* any character, or the anchors ^ and $) and whether "*" follows it.
Atom(kind, c, star) == [kind |-> kind, c |-> c, star |-> star]

\* re.compile on a pattern made of literals, \c escapes, ".", a postfix "*",
\* "^" and "$".
RECURSIVE re_parse(_)
re_parse(p) ==
  IF p = << >> THEN << >>
  ELSE
    LET esc  == Head(p) = "\\" /\ Len(p) >= 2
        n    == IF esc THEN 2 ELSE 1
        kind == IF esc THEN "lit"
                ELSE IF Head(p) = "." THEN "any"
                ELSE IF Head(p) = "^" THEN "bol"
                ELSE IF Head(p) = "$" THEN "eol"
                ELSE "lit"
        c    == IF esc THEN p[2] ELSE Head(p)
        star == Len(p) > n /\ p[n + 1] = "*"
        rest == SubSeq(p, n + 1 + (IF star THEN 1 ELSE 0), Len(p))
    IN  << Atom(kind, c, star) >> \o re_parse(rest)

\* A compiled pattern: its items and the IGNORECASE flag.
re_compile(p, ignorecase) == [items |-> re_parse(p), ic |-> ignorecase]

AtomTakes(a, ch, ic) ==
  \/ a.kind = "any"
  \/ a.kind = "lit" /\ (IF ic THEN Lower(a.c) = Lower(ch) ELSE a.c = ch)

\* The backtracking matcher: the end (0-based) of the first match of items
\* i.. of re found from pos in the order Python tries them (a starred atom
\* takes as many characters as it can before giving one back), or -1.
\* A match may not end at position `notAt` (the must-advance rule after an
\* empty match; -1 for none).
RECURSIVE sre_match(_, _, _, _, _)
sre_match(re, i, s, pos, notAt) ==
  IF i > Len(re.items) THEN (IF pos = notAt THEN -1 ELSE pos)
  ELSE
    LET a == re.items[i] IN
    IF a.kind = "bol" THEN
      (IF pos = 0 THEN sre_match(re, i + 1, s, pos, notAt) ELSE -1)
    ELSE IF a.kind = "eol" THEN
      (IF pos = Len(s) THEN sre_match(re, i + 1, s, pos, notAt) ELSE -1)
    ELSE
      LET takes == pos < Len(s) /\ AtomTakes(a, s[pos + 1], re.ic) IN
      IF a.star THEN
        LET more == IF takes THEN sre_match(re, i, s, pos + 1, notAt) ELSE -1 IN
        IF more # -1 THEN more ELSE sre_match(re, i + 1, s, pos, notAt)
      ELSE
        IF takes THEN sre_match(re, i + 1, s, pos + 1, notAt) ELSE -1

\* pattern.match(s): a match starting at offset 0
re_match(re, s) == sre_match(re, 1, s, 0, -1) # -1

\* re.finditer(re, s) from position pos: the (start, end) spans of the
\* non-overlapping matches, left to right. After an empty match the next
\* one may not be empty at the same place.
RECURSIVE finditer_from(_, _, _, _, _)
finditer_from(re, s, pos, st, mustAdvance) ==
  IF st > Len(s) THEN << >>
  ELSE
    LET e == sre_match(re, 1, s, st, IF mustAdvance /\ st = pos THEN pos ELSE -1) IN
    IF e = -1 THEN finditer_from(re, s, pos, st + 1, mustAdvance)
    ELSE << << st, e >> >> \o finditer_from(re, s, e, e, e = st)

\* finditer that only tries offset 0 (re.match in place of a search)
finditer_anchored(re, s) ==
  LET e == sre_match(re, 1, s, 0, -1) IN
  IF e = -1 THEN << >> ELSE << << 0, e >> >>

finditer(re, s) == finditer_from(re, s, 0, 0, FALSE)

(***************************************************************************)
(* State                                                                   *)
(***************************************************************************)

VARIABLES
  OPTIONS,       \* the parsed command line (init_options)
  dictfs,        \* the dictionary files on disk: path -> [ok, lines]
  tree,          \* the directory tree under the scan root: path -> [dirs, files]
  KEYWORDS,      \* global KEYWORDS
  K_REGEX,       \* global K_REGEX
  INCLUDE,       \* global INCLUDE
  EXCLUDE,       \* global EXCLUDE
  pc,            \* where the program is
  arg,           \* the argument of the function under study (pure-function specs)
  ret,           \* its return value
  todo,          \* os.walk: the directories still to visit, next first
  path,          \* search: the directory being listed
  files,         \* search: the items of `path` not yet handled
  item_path,     \* search: the file being scanned
  lines,         \* megagenerator: fd.readlines()
  ct,            \* megagenerator: ct
  found,         \* megagenerator: found (sorted when yielded)
  file_results,  \* content_search: file_results
  results,       \* search: results
  stats,         \* search: stats
  seen           \* history: what was passed to is_included and to a scanner

vars == << OPTIONS, dictfs, tree, KEYWORDS, K_REGEX, INCLUDE, EXCLUDE, pc, arg,
           ret, todo, path, files, item_path, lines, ct, found, file_results,
           results, stats, seen >>

scan_vars == << todo, path, files, item_path, lines, ct, found, file_results,
                results, stats, seen >>

(***************************************************************************)
(* Configuration (src/megagrep.py, CONFIGURATION and OPTIONS)              *)
(***************************************************************************)

\* None, and the empty string: both are false in a Python condition.
None == << >>

DICT_COMMENT_TAG == "#"

\* "*.min.js,*.css"
DEFAULT_EXCLUDE ==
  << "*", ".", "m", "i", "n", ".", "j", "s", ",", "*", ".", "c", "s", "s" >>

\* the path of dicts/global.mg
DEFAULT_DICTIONARY == << "g", "l", "o", "b", "a", "l", ".", "m", "g" >>

\* The defaults of the options (D_*): keyword mode, case-insensitive.
DefaultOptions ==
  [ sensitive |-> FALSE, comment |-> FALSE, strings |-> FALSE, names |-> FALSE,
    include |-> None, exclude |-> DEFAULT_EXCLUDE, word |-> None, dict |-> None,
    list |-> None, tag |-> None ]

(***************************************************************************)
(* Dictionary (parse_dict, init_keywords)                                  *)
(***************************************************************************)

\* \w of the characters of the model
IsWord(c) == Ord(c) >= Ord("1") /\ c \notin { ":", ";", "=", "?", "[", "\\", "]" }

\* LIST_REGEX.match(line): "[" word, "-", "_" or "+" characters "]"
list_match(line) ==
  /\ Len(line) >= 2
  /\ line[1] = "[" /\ line[Len(line)] = "]"
  /\ \A k \in 2..(Len(line) - 1) : IsWord(line[k]) \/ line[k] \in { "-", "_", "+" }

\* group(1) of that match
list_group(line) == SubSeq(line, 2, Len(line) - 1)

\* The value of `current` before any header: None, which is in no list of
\* strings.
NoCategory == << "None" >>

\* That test, keeping a line before any header whatever the filter is.
category_kept_uncategorized(current, categories) ==
  \/ categories = << >>
  \/ current = NoCategory
  \/ \E k \in 1..Len(categories) : categories[k] = current

\* The test that keeps a keyword line (the elif of parse_dict).
category_kept(current, categories) ==
  categories = << >> \/ \E k \in 1..Len(categories) : categories[k] = current

\* The loop of parse_dict over the lines of the file.
RECURSIVE parse_lines(_, _, _)
parse_lines(ls, current, categories) ==
  IF ls = << >> THEN << >>
  ELSE
    LET line == strip(split(Head(ls), DICT_COMMENT_TAG)[1]) IN
    IF Len(line) = 0 THEN parse_lines(Tail(ls), current, categories)
    ELSE IF list_match(line)
      THEN parse_lines(Tail(ls), lower(list_group(line)), categories)
    ELSE IF category_kept(current, categories)
      THEN << line >> \o parse_lines(Tail(ls), current, categories)
    ELSE parse_lines(Tail(ls), current, categories)

\* CHECKFILE(dictfile, force_file=True): the file exists and can be read
CHECKFILE(dictfile) == dictfile \in DOMAIN dictfs /\ dictfs[dictfile].ok

parse_dict(dictfile, categories) ==
  IF ~CHECKFILE(dictfile) THEN << >>
  ELSE parse_lines(dictfs[dictfile].lines, NoCategory, categories)

\* REGEX of init_keywords
KeywordRegex(x) ==
  re_compile(replace(re_escape(x), "*", << ".", "*" >>), ~OPTIONS.sensitive)

\* [REGEX(x) for x in keywords]
KeywordRegexes(keywords) == [i \in 1..Len(keywords) |-> KeywordRegex(keywords[i])]

\* The loop over the dictionaries of --dict: state is (keywords, k_regex).
RECURSIVE dict_loop(_, _, _)
dict_loop(dictionaries, categories, kk) ==
  IF dictionaries = << >> THEN kk
  ELSE
    LET keywords == kk.keywords \o parse_dict(Head(dictionaries), categories)
        k_regex  == kk.k_regex \o KeywordRegexes(keywords)
    IN  dict_loop(Tail(dictionaries), categories,
                  [keywords |-> keywords, k_regex |-> k_regex])

\* categories of init_keywords, after OPTION LIST
init_categories == IF OPTIONS.list # None THEN split(OPTIONS.list, ",") ELSE << >>

\* init_keywords without the default dictionary for an empty keyword list
init_keywords_no_default ==
  LET categories == init_categories
      w_keywords == IF OPTIONS.word # None THEN split(OPTIONS.word, ",") ELSE << >>
      afterWord  == [keywords |-> w_keywords, k_regex |-> KeywordRegexes(w_keywords)]
  IN  IF OPTIONS.dict # None
      THEN dict_loop(split(OPTIONS.dict, ","), categories, afterWord)
      ELSE afterWord

init_keywords ==
  LET categories == init_categories
      w_keywords == IF OPTIONS.word # None THEN split(OPTIONS.word, ",") ELSE << >>
      afterWord  == [keywords |-> w_keywords, k_regex |-> KeywordRegexes(w_keywords)]
      afterDict  == IF OPTIONS.dict # None
                    THEN dict_loop(split(OPTIONS.dict, ","), categories, afterWord)
                    ELSE afterWord
  IN  IF afterDict.keywords = << >>
      THEN LET keywords == parse_dict(DEFAULT_DICTIONARY, categories)
           IN  [keywords |-> keywords,
                k_regex  |-> afterDict.k_regex \o KeywordRegexes(keywords)]
      ELSE afterDict

(***************************************************************************)
(* Include / exclude (init_include_exclude, is_included)                   *)
(***************************************************************************)

\* REGEX of init_include_exclude
FilterRegex(x) ==
  re_compile(<< "^" >> \o replace(replace(x, ".", << "\\", "." >>), "*", << ".", "*" >>)
             \o << "$" >>, FALSE)

\* [REGEX(x) for x in option.split(",")]
FilterRegexes(globs) == [i \in 1..Len(globs) |-> FilterRegex(globs[i])]

init_include == IF OPTIONS.include # None THEN FilterRegexes(split(OPTIONS.include, ",")) ELSE << >>

init_exclude == IF OPTIONS.exclude # None THEN FilterRegexes(split(OPTIONS.exclude, ",")) ELSE << >>

AnyMatch(entries, filename) ==
  \E k \in 1..Len(entries) : re_match(entries[k], filename)

\* is_included with the include list tried before the exclude list
is_included_include_first(filename) ==
  IF AnyMatch(INCLUDE, filename) THEN TRUE
  ELSE IF AnyMatch(EXCLUDE, filename) THEN FALSE
  ELSE Len(INCLUDE) = 0

is_included(filename) ==
  IF AnyMatch(EXCLUDE, filename) THEN FALSE
  ELSE IF AnyMatch(INCLUDE, filename) THEN TRUE
  ELSE IF Len(INCLUDE) = 0 THEN TRUE
  ELSE FALSE

(***************************************************************************)
(* Start-up (the Init section of the script, lines 754-761)                *)
(***************************************************************************)

\* Stats.__init__
NewStats == [nb_file |-> 0, nb_line |-> 0, nb_resline |-> 0, nb_result |-> 0]

NoTree == [p \in { << >> } |-> [dirs |-> << >>, files |-> << >>]]

\* The state before the script's Init section ran, for given inputs.
Start(options, dfs, tr, a) ==
  /\ OPTIONS = options
  /\ dictfs = dfs
  /\ tree = tr
  /\ KEYWORDS = << >>
  /\ K_REGEX = << >>
  /\ INCLUDE = << >>
  /\ EXCLUDE = << >>
  /\ pc = "init"
  /\ arg = a
  /\ ret = << >>
  /\ todo = << >>
  /\ path = << >>
  /\ files = << >>
  /\ item_path = << >>
  /\ lines = << >>
  /\ ct = -1
  /\ found = << >>
  /\ file_results = << >>
  /\ results = << >>
  /\ stats = NewStats
  /\ seen = [filtered |-> { }, scanned |-> { }]

\* KEYWORDS, K_REGEX = init_keywords(); INCLUDE, EXCLUDE = init_include_exclude()
Initialize ==
  /\ pc = "init"
  /\ KEYWORDS' = init_keywords.keywords
  /\ K_REGEX' = init_keywords.k_regex
  /\ INCLUDE' = init_include
  /\ EXCLUDE' = init_exclude
  /\ pc' = "ready"
  /\ UNCHANGED << OPTIONS, dictfs, tree, arg, ret, scan_vars >>

\* The default dictionary of the model (dicts/global.mg is not part of the
\* sources): two keywords, one of them in a category.
s_password == << "p", "a", "s", "s", "w", "o", "r", "d" >>

s_sql == << "s", "q", "l" >>

GlobalMg ==
  [ok |-> TRUE, lines |-> << s_password, << "[", "d", "b", "]" >>, s_sql >>]

DefaultDictFs == [p \in { DEFAULT_DICTIONARY } |-> GlobalMg]

(***************************************************************************)
(* is_included as a function: SpecFilter                                   *)
(***************************************************************************)

\* The longest generated file name.
MaxNameLen == 3

StringsUpTo(S, n) == UNION { [1..k -> S] : k \in 1..n }

s_app_js == << "a", "p", "p", ".", "j", "s" >>

s_app_min_js == << "a", "p", "p", ".", "m", "i", "n", ".", "j", "s" >>

g_js == << "*", ".", "j", "s" >>

g_min_js == << "*", ".", "m", "i", "n", ".", "j", "s" >>

FilterNames == StringsUpTo({ "a", ".", "j" }, MaxNameLen) \cup { s_app_js, s_app_min_js }

IncludeOpts ==
  { None, g_js, << "a", "*" >>, << "*", ".", "j", ",", "a", ".", "a" >> }

ExcludeOpts ==
  { None, DEFAULT_EXCLUDE, g_min_js, << "*", "a", "*" >>,
    << "a", ".", "j", ",", "*", ".", "a" >> }

InitFilter ==
  \E i \in IncludeOpts, x \in ExcludeOpts, f \in FilterNames :
    Start([DefaultOptions EXCEPT !.include = i, !.exclude = x], DefaultDictFs, NoTree, f)

CallIsIncluded ==
  /\ pc = "ready"
  /\ ret' = is_included(arg)
  /\ pc' = "return"
  /\ UNCHANGED << OPTIONS, dictfs, tree, KEYWORDS, K_REGEX, INCLUDE, EXCLUDE, arg, scan_vars >>

NextFilter == Initialize \/ CallIsIncluded

SpecFilter == InitFilter /\ [][NextFilter]_vars

\* A file-name glob read as the spec reads it: "*" is any run of characters,
\* every other character is itself, and the whole name must be matched.
RECURSIVE GlobFull(_, _)
GlobFull(g, name) ==
  IF g = << >> THEN name = << >>
  ELSE IF Head(g) = "*"
    THEN GlobFull(Tail(g), name) \/ (name # << >> /\ GlobFull(g, Tail(name)))
  ELSE name # << >> /\ Head(name) = Head(g) /\ GlobFull(Tail(g), Tail(name))

GlobsOf(opt) == IF opt = None THEN << >> ELSE split(opt, ",")

MatchesSomeGlob(opt, name) ==
  \E k \in 1..Len(GlobsOf(opt)) : GlobFull(GlobsOf(opt)[k], name)

\* C1: is_included accepts a file name iff it fully matches no exclude
\* pattern and (it fully matches some include pattern or there is no include
\* pattern); with exclude *.min.js and include *.js, app.min.js is rejected
\* and app.js accepted.
C1_IncludeExclude ==
  pc = "return" =>
    /\ ret = ( /\ ~MatchesSomeGlob(OPTIONS.exclude, arg)
               /\ (MatchesSomeGlob(OPTIONS.include, arg) \/ GlobsOf(OPTIONS.include) = << >>) )
    /\ (OPTIONS.exclude = g_min_js /\ OPTIONS.include = g_js /\ arg = s_app_min_js
          => ret = FALSE)
    /\ (OPTIONS.exclude = g_min_js /\ OPTIONS.include = g_js /\ arg = s_app_js
          => ret = TRUE)

\* The name matches an exclude and an include pattern, and was rejected.
C1_Witness ==
  /\ pc = "return"
  /\ OPTIONS.exclude = g_min_js /\ OPTIONS.include = g_js /\ arg = s_app_min_js
  /\ AnyMatch(EXCLUDE, arg) /\ AnyMatch(INCLUDE, arg)
  /\ ret = FALSE

(***************************************************************************)
(* parse_dict as a function: SpecDict                                      *)
(***************************************************************************)

\* The longest generated dictionary file, in lines.
MaxDictLines == 3

SeqsUpTo(S, n) == UNION { [1..k -> S] : k \in 0..n }

l_comment == << "#", " ", "x" >>

l_a == << "a" >>

l_cat == << "[", "c", "a", "t", "]" >>

l_Cat == << "[", "C", "a", "t", "]" >>

l_B_comment == << "B", " ", "#", " ", "y" >>

l_not_header == << "[", "a", " ", "b", "]" >>

\* the example of the spec: ["# x", "a", "[cat]", "B # y"]
ExampleDict == << l_comment, l_a, l_cat, l_B_comment >>

DictLineChoices == { l_comment, l_a, l_cat, l_Cat, l_B_comment, l_not_header, << " " >> }

d_path == << "d" >>

DictFiles ==
  { [ok |-> TRUE, lines |-> ls] : ls \in SeqsUpTo(DictLineChoices, MaxDictLines) \cup { ExampleDict } }
  \cup { [ok |-> FALSE, lines |-> ExampleDict] }

f_cat == << "c", "a", "t" >>

f_Cat == << "C", "a", "t" >>

f_CAT == << "C", "A", "T" >>

ListOpts == { None, f_cat, f_Cat, f_CAT, << "d", ",", "c", "a", "t" >> }

InitDict ==
  \E d \in DictFiles, l \in ListOpts :
    Start([DefaultOptions EXCEPT !.list = l, !.dict = d_path],
          [p \in { d_path, DEFAULT_DICTIONARY } |-> IF p = d_path THEN d ELSE GlobalMg],
          NoTree, d_path)

\* parse_dict(dictfile, categories), as init_keywords calls it
CallParseDict ==
  /\ pc = "ready"
  /\ ret' = parse_dict(arg, init_categories)
  /\ pc' = "return"
  /\ UNCHANGED << OPTIONS, dictfs, tree, KEYWORDS, K_REGEX, INCLUDE, EXCLUDE, arg, scan_vars >>

NextDict == Initialize \/ CallParseDict

SpecDict == InitDict /\ [][NextDict]_vars

\* The dictionary grammar, read line by line as the spec states it.
DictLine(k) ==
  LET l    == dictfs[arg].lines[k]
      hash == { j \in 1..Len(l) : l[j] = "#" }
      cut  == IF hash = { } THEN Len(l)
              ELSE (CHOOSE j \in hash : \A j2 \in hash : j <= j2) - 1
  IN  strip(SubSeq(l, 1, cut))

IsHeader(k) == list_match(DictLine(k))

IsKeywordLine(k) == DictLine(k) # << >> /\ ~IsHeader(k)

Headers(k) == { j \in 1..(k - 1) : IsHeader(j) }

LastHeader(k) == CHOOSE j \in Headers(k) : \A j2 \in Headers(k) : j2 <= j

\* the name in the header that line k stands under
HeaderName(k) == list_group(DictLine(LastHeader(k)))

FilterEntries == { init_categories[j] : j \in 1..Len(init_categories) }

\* line k is selected by the filter, the header being case-folded
InFilter(k) ==
  \/ FilterEntries = { }
  \/ Headers(k) # { } /\ lower(HeaderName(k)) \in FilterEntries

\* line k is selected by the filter, letter case ignored on both sides
InFilterAnyCase(k) ==
  \/ FilterEntries = { }
  \/ Headers(k) # { } /\ \E e \in FilterEntries : lower(e) = lower(HeaderName(k))

\* the selected keyword lines among 1..n, in file order
RECURSIVE KeptLines(_, _)
KeptLines(n, anyCase) ==
  IF n = 0 THEN << >>
  ELSE KeptLines(n - 1, anyCase)
       \o (IF IsKeywordLine(n) /\ (IF anyCase THEN InFilterAnyCase(n) ELSE InFilter(n))
           THEN << DictLine(n) >> ELSE << >>)

\* C7: parse_dict on a readable file returns, in file order, the lines that
\* are non-empty after the comment is cut and the line trimmed and that are
\* not a [category] header, restricted by a non-empty filter to the lines
\* whose current category is in it (lines before any header only with an
\* empty filter); ["# x", "a", "[cat]", "B # y"] gives ["a", "B"] without a
\* filter and ["B"] with the filter ["cat"].
C7_ParseDict ==
  pc = "return" /\ dictfs[arg].ok =>
    /\ ret = KeptLines(Len(dictfs[arg].lines), FALSE)
    /\ (dictfs[arg].lines = ExampleDict /\ OPTIONS.list = None => ret = << << "a" >>, << "B" >> >>)
    /\ (dictfs[arg].lines = ExampleDict /\ OPTIONS.list = f_cat => ret = << << "B" >> >>)

\* The example file was parsed with the filter ["cat"].
C7_Witness ==
  /\ pc = "return" /\ dictfs[arg].ok
  /\ dictfs[arg].lines = ExampleDict /\ OPTIONS.list = f_cat
  /\ ret = << << "B" >> >>

\* C8: category selection ignores letter case on both sides: a keyword under
\* header [X] is kept iff some filter entry equals X ignoring case, so the
\* filter ["Cat"] selects the keywords under [cat] as ["cat"] does.
C8_CategoryCaseInsensitive ==
  pc = "return" /\ dictfs[arg].ok =>
    ret = KeptLines(Len(dictfs[arg].lines), TRUE)

(***************************************************************************)
(* pattern_keyword as a function: SpecKeyword                              *)
(***************************************************************************)

\* The matches of one keyword: [(m.start(), keyword) for m in finditer(...)]
keyword_matches(keyword, k_regex, line) ==
  LET index == finditer(k_regex, line)
  IN  [j \in 1..Len(index) |-> << index[j][1], keyword >>]

\* The loop of pattern_keyword over zip(KEYWORDS, K_REGEX), from pair k on.
RECURSIVE pattern_keyword_from(_, _)
pattern_keyword_from(k, line) ==
  IF k > Len(KEYWORDS) \/ k > Len(K_REGEX) THEN << >>
  ELSE keyword_matches(KEYWORDS[k], K_REGEX[k], line) \o pattern_keyword_from(k + 1, line)

pattern_keyword(line) == pattern_keyword_from(1, line)

\* The longest generated line.
MaxLineLen == 3

k_a_star_b == << "a", "*", "b" >>

k_a_dot_b == << "a", ".", "b" >>

k_f_paren == << "f", "(" >>

k_sql_star == << "s", "q", "l", "*" >>

s_sqlQuery == << "s", "q", "l", "Q", "u", "e", "r", "y" >>

s_mysql == << "m", "y", "s", "q", "l" >>

WordOpts ==
  { k_a_star_b, k_a_dot_b, k_f_paren, k_sql_star, << "a" >>, << "*" >>,
    << "b", ",", "a", "*", "b" >> }

KeywordLines ==
  StringsUpTo({ "a", "b", "x", ".", "B" }, MaxLineLen)
  \cup { << "a", "x", "y", "z", "b" >>, << "a", ".", ".", "b" >>, k_f_paren, << "f" >>,
         s_sqlQuery, s_mysql, << >> }

InitKeyword ==
  \E w \in WordOpts, sens \in BOOLEAN, l \in KeywordLines :
    Start([DefaultOptions EXCEPT !.word = w, !.sensitive = sens], DefaultDictFs, NoTree, l)

CallPatternKeyword ==
  /\ pc = "ready"
  /\ ret' = pattern_keyword(arg)
  /\ pc' = "return"
  /\ UNCHANGED << OPTIONS, dictfs, tree, KEYWORDS, K_REGEX, INCLUDE, EXCLUDE, arg, scan_vars >>

NextKeyword == Initialize \/ CallPatternKeyword

SpecKeyword == InitKeyword /\ [][NextKeyword]_vars

\* A keyword read as the spec reads it, against a whole text: "*" is any run
\* of characters, every other character is itself (letter case as configured).
RECURSIVE WildFull(_, _)
WildFull(k, text) ==
  IF k = << >> THEN text = << >>
  ELSE IF Head(k) = "*"
    THEN WildFull(Tail(k), text) \/ (text # << >> /\ WildFull(k, Tail(text)))
  ELSE /\ text # << >>
       /\ IF OPTIONS.sensitive THEN Head(text) = Head(k)
          ELSE Lower(Head(text)) = Lower(Head(k))
       /\ WildFull(Tail(k), Tail(text))

\* some part of the line is an occurrence of the keyword
WildOccurs(k, line) ==
  \E a \in 0..Len(line) : \E b \in a..Len(line) : WildFull(k, SubSeq(line, a + 1, b))

\* C9: in a compiled keyword matcher "*" stands for zero or more of any
\* character and every other character is literal: a*b matches "ab", "axb"
\* and "axyzb"; "a.b" and "f(" match only their literal text.
C9_Wildcard ==
  pc = "return" /\ Len(KEYWORDS) = 1 =>
    (ret # << >>) = WildOccurs(KEYWORDS[1], arg)

\* C10 as stated: sql* gives a Match at offset 0 for "sqlQuery" and no Match
\* for "mysql".
C10_LeftAnchored ==
  pc = "return" /\ OPTIONS.word = k_sql_star =>
    /\ (arg = s_sqlQuery => ret = << << 0, k_sql_star >> >>)
    /\ (arg = s_mysql => ret = << >>)

\* C10 amended: sql* gives exactly one Match, at offset 0, for "sqlQuery" and
\* exactly one Match, at offset 2, for "mysql": the keyword is searched for
\* at every offset of the line.
C10_SearchedAnywhere ==
  pc = "return" /\ OPTIONS.word = k_sql_star =>
    /\ (arg = s_sqlQuery => ret = << << 0, k_sql_star >> >>)
    /\ (arg = s_mysql => ret = << << 2, k_sql_star >> >>)

\* sql* was searched for in "mysql".
C10_Witness ==
  /\ pc = "return" /\ OPTIONS.word = k_sql_star /\ arg = s_mysql
  /\ KEYWORDS = << k_sql_star >>
  /\ ret # << >>

(***************************************************************************)
(* init_keywords over the keyword sources: SpecSources                     *)
(***************************************************************************)

e_path == << "e" >>

x_path == << "x" >>

\* --dict d,e
d_e_paths == << "d", ",", "e" >>

\* --dict x,d
x_d_paths == << "x", ",", "d" >>

\* Dictionary files: d holds the keyword c, e holds the keyword b under the
\* header [cat], x cannot be read; the default dictionary is GlobalMg.
SourcesDictFs ==
  [p \in { d_path, e_path, x_path, DEFAULT_DICTIONARY } |->
     IF p = d_path THEN [ok |-> TRUE, lines |-> << << "c" >> >>]
     ELSE IF p = e_path THEN [ok |-> TRUE, lines |-> << l_cat, << "b" >> >>]
     ELSE IF p = x_path THEN [ok |-> FALSE, lines |-> << << "c" >> >>]
     ELSE GlobalMg]

SourcesWordOpts == { None, << "a" >>, << "b", ",", "a" >> }

SourcesDictOpts == { None, d_path, e_path, x_path, d_e_paths, x_d_paths }

SourcesLines ==
  StringsUpTo({ "a", "b", "c" }, 2) \cup { s_password, s_sql }

InitSources ==
  \E w \in SourcesWordOpts, d \in SourcesDictOpts, l \in SourcesLines :
    Start([DefaultOptions EXCEPT !.word = w, !.dict = d], SourcesDictFs, NoTree, l)

NextSources == Initialize \/ CallPatternKeyword

SpecSources == InitSources /\ [][NextSources]_vars

\* the start offsets at which keyword k's own pattern occurs in the line
OwnOffsets(k, line) ==
  LET index == finditer(KeywordRegex(k), line)
  IN  { index[j][1] : j \in 1..Len(index) }

\* C11: after init_keywords the matcher list is as long as the keyword list
\* and its i-th matcher is the pattern compiled from the i-th keyword; every
\* Match (offset, k) of the keyword scanner is an occurrence of k's own
\* pattern at that offset, and every loaded keyword is searched for.
C11_MatcherPerKeyword ==
  /\ pc \in { "ready", "return" } =>
       /\ Len(K_REGEX) = Len(KEYWORDS)
       /\ \A i \in 1..Len(KEYWORDS) : K_REGEX[i] = KeywordRegex(KEYWORDS[i])
  /\ pc = "return" =>
       /\ \A j \in 1..Len(ret) : ret[j][1] \in OwnOffsets(ret[j][2], arg)
       /\ \A i \in 1..Len(KEYWORDS) : \A o \in OwnOffsets(KEYWORDS[i], arg) :
            \E j \in 1..Len(ret) : ret[j] = << o, KEYWORDS[i] >>

(***************************************************************************)
(* The comment and string scanners (pattern_comment, pattern_strings)      *)
(***************************************************************************)

\* The least offset s >= from at which the line continues with lit, or -1.
RECURSIVE FirstAt(_, _, _)
FirstAt(line, from, lit) ==
  IF from + Len(lit) > Len(line) THEN -1
  ELSE IF StartsAt(line, from, lit) THEN from
  ELSE FirstAt(line, from + 1, lit)

\* line[a:b]
Slice(line, a, b) == SubSeq(line, a + 1, b)

\* The number of characters from offset `from` on that are not ch.
RECURSIVE RunNot(_, _, _)
RunNot(line, from, ch) ==
  IF from >= Len(line) \/ line[from + 1] = ch THEN 0
  ELSE 1 + RunNot(line, from + 1, ch)

\* finditer(COMMENT_DEFAULT_REGEX, line), or the custom tag's regex: the
\* text after the first tag. `tags` are the alternatives, in order.
tag_matches(line, tags) ==
  LET at(k) == FirstAt(line, 0, tags[k])
      hits  == { k \in 1..Len(tags) : at(k) # -1 }
  IN  IF hits = { } THEN << >>
      ELSE LET s == CHOOSE v \in { at(k) : k \in hits } : \A k \in hits : v <= at(k)
               k == CHOOSE j \in hits : at(j) = s /\ \A j2 \in hits : at(j2) = s => j <= j2
               b == s + Len(tags[k])
           IN  << << b, Slice(line, b, Len(line)) >> >>

\* finditer(COMMENT_CSTYLE_REGEX, line) from offset `from`:
\* "/*", then "*" and one of ? ! /, or a run without "*", then "*/".
RECURSIVE cstyle_matches(_, _)
cstyle_matches(line, from) ==
  LET s == FirstAt(line, from, << "/", "*" >>) IN
  IF s = -1 THEN << >>
  ELSE
    LET alt1 == /\ s + 4 <= Len(line)
                /\ line[s + 3] = "*"
                /\ line[s + 4] \in { "?", "!", "/" }
                /\ StartsAt(line, s + 4, << "*", "/" >>)
        n    == RunNot(line, s + 2, "*")
        alt2 == StartsAt(line, s + 2 + n, << "*", "/" >>)
    IN  IF alt1 THEN << << s + 2, Slice(line, s + 2, s + 4) >> >> \o cstyle_matches(line, s + 6)
        ELSE IF alt2
          THEN << << s + 2, Slice(line, s + 2, s + 2 + n) >> >> \o cstyle_matches(line, s + 4 + n)
        ELSE cstyle_matches(line, s + 1)

Quotes3 == << "\"", "\"", "\"" >>

\* finditer(COMMENT_PYDOC_REGEX, line) from offset `from`: three quotes, the
\* shortest text, three quotes.
RECURSIVE pydoc_matches(_, _)
pydoc_matches(line, from) ==
  LET s == FirstAt(line, from, Quotes3) IN
  IF s = -1 THEN << >>
  ELSE
    LET e == FirstAt(line, s + 3, Quotes3) IN
    IF e = -1 THEN pydoc_matches(line, s + 1)
    ELSE << << s + 3, Slice(line, s + 3, e) >> >> \o pydoc_matches(line, e + 3)

pattern_comment(line) ==
  IF OPTIONS.tag # None THEN tag_matches(line, << OPTIONS.tag >>)
  ELSE tag_matches(line, << << "/", "/" >>, << "#" >> >>)
       \o cstyle_matches(line, 0)
       \o pydoc_matches(line, 0)

\* finditer(STRING_ONELINE_REGEX, line) from offset `from`: text without
\* quotes, a quote, at least one character that is no quote, a quote, text
\* without quotes.
RECURSIVE pattern_strings_from(_, _)
pattern_strings_from(line, from) ==
  LET q1 == FirstAt(line, from, << "\"" >>) IN
  IF q1 = -1 THEN << >>
  ELSE
    LET n  == RunNot(line, q1 + 1, "\"")
        q2 == q1 + 1 + n
    IN  IF q2 >= Len(line) THEN << >>
        ELSE IF n = 0 THEN pattern_strings_from(line, q1 + 1)
        ELSE << << q1 + 1, Slice(line, q1 + 1, q2) >> >>
             \o pattern_strings_from(line, q2 + 1 + RunNot(line, q2 + 1, "\""))

pattern_strings(line) == pattern_strings_from(line, 0)

\* select_pattern()(line)
pattern_search(line) ==
  IF OPTIONS.comment THEN pattern_comment(line)
  ELSE IF OPTIONS.strings THEN pattern_strings(line)
  ELSE pattern_keyword(line)

\* a < b for (offset, text) pairs, as Python orders tuples
PairLess(a, b) == a[1] < b[1] \/ (a[1] = b[1] /\ StrLess(a[2], b[2]))

RECURSIVE insert_sorted(_, _)
insert_sorted(x, xs) ==
  IF xs = << >> THEN << x >>
  ELSE IF PairLess(x, Head(xs)) THEN << x >> \o xs
  ELSE << Head(xs) >> \o insert_sorted(x, Tail(xs))

\* the matches as the scanner found them, not sorted
found_unsorted(xs) == xs

\* sorted(found)
RECURSIVE sorted(_)
sorted(xs) ==
  IF xs = << >> THEN << >>
  ELSE insert_sorted(xs[Len(xs)], sorted(SubSeq(xs, 1, Len(xs) - 1)))

(***************************************************************************)
(* The file walker (search, content_search, name_search, megagenerator)    *)
(***************************************************************************)

\* f[0] == '.'
hidden(name) == Head(name) = "."

\* [x for x in names if not x[0] == '.'], on names or on file entries
RECURSIVE not_hidden_names(_)
not_hidden_names(names) ==
  IF names = << >> THEN << >>
  ELSE (IF hidden(Head(names)) THEN << >> ELSE << Head(names) >>)
       \o not_hidden_names(Tail(names))

RECURSIVE not_hidden_files(_)
not_hidden_files(fs) ==
  IF fs = << >> THEN << >>
  ELSE (IF hidden(Head(fs).name) THEN << >> ELSE << Head(fs) >>)
       \o not_hidden_files(Tail(fs))

\* walk_dirs without the pruning of hidden directories
walk_dirs_unpruned(tr, p) ==
  [k \in 1..Len(tr[p].dirs) |-> Append(p, tr[p].dirs[k])]

\* the directories os.walk descends into below p, after dirs[:] was pruned
walk_dirs(tr, p) ==
  LET dirs == not_hidden_names(tr[p].dirs)
  IN  [k \in 1..Len(dirs) |-> Append(p, dirs[k])]

\* join(path, item), the path kept as its components
join(p, item) == Append(p, item)

\* the path as text: its components with "/" between them
RECURSIVE path_text(_)
path_text(p) ==
  IF p = << >> THEN << >>
  ELSE IF Len(p) = 1 THEN Head(p)
  ELSE Head(p) \o << "/" >> \o path_text(Tail(p))

\* Result(line_no, line, found, path, before, after)
Result(line_no, line, fnd, p, before, after) ==
  [line_no |-> line_no, line |-> line, found |-> fnd, path |-> p,
   before |-> before, after |-> after]

name_search(filename, p) ==
  LET fnd == pattern_keyword(filename) IN
  IF Len(fnd) # 0
  THEN << Result(0, filename \o << " ", "-", " " >> \o path_text(p), sorted(fnd), p,
                 << >>, << >>) >>
  ELSE << >>

\* megagenerator, at line index c (0-based) of ls: the stripped line, what
\* the scanner finds in it, and the tuple it yields
line_at(ls, c) == strip(ls[c + 1])

before_at(ls, c) == IF c > 0 THEN strip(ls[c]) ELSE << >>

after_at(ls, c) == IF c < Len(ls) - 1 THEN strip(ls[c + 2]) ELSE << >>

\* search: stats = Stats(); results = []; the walk starts at the root
StartSearch ==
  /\ pc = "ready"
  /\ stats' = NewStats
  /\ results' = << >>
  /\ todo' = << << >> >>
  /\ pc' = "walk"
  /\ UNCHANGED << OPTIONS, dictfs, tree, KEYWORDS, K_REGEX, INCLUDE, EXCLUDE, arg, ret,
                  path, files, item_path, lines, ct, found, file_results, seen >>

\* for path, dirs, files in walk(basepath): the hidden entries are dropped
WalkDir ==
  /\ pc = "walk" /\ todo # << >>
  /\ path' = Head(todo)
  /\ files' = not_hidden_files(tree[Head(todo)].files)
  /\ todo' = walk_dirs(tree, Head(todo)) \o Tail(todo)
  /\ pc' = "files"
  /\ UNCHANGED << OPTIONS, dictfs, tree, KEYWORDS, K_REGEX, INCLUDE, EXCLUDE, arg, ret,
                  item_path, lines, ct, found, file_results, results, stats, seen >>

\* the walk is over: return results, stats
WalkEnd ==
  /\ pc = "walk" /\ todo = << >>
  /\ pc' = "done"
  /\ UNCHANGED << OPTIONS, dictfs, tree, KEYWORDS, K_REGEX, INCLUDE, EXCLUDE, arg, ret,
                  scan_vars >>

\* for item in files: no item is left
FilesEnd ==
  /\ pc = "files" /\ files = << >>
  /\ pc' = "walk"
  /\ UNCHANGED << OPTIONS, dictfs, tree, KEYWORDS, K_REGEX, INCLUDE, EXCLUDE, arg, ret,
                  scan_vars >>

Filtered(p) == [seen EXCEPT !.filtered = @ \cup { p }]

Scanned(p) == [seen EXCEPT !.filtered = @ \cup { p }, !.scanned = @ \cup { p }]

\* is_included(item) is false
SkipItem ==
  /\ pc = "files" /\ files # << >>
  /\ ~is_included(Head(files).name)
  /\ files' = Tail(files)
  /\ seen' = Filtered(join(path, Head(files).name))
  /\ UNCHANGED << OPTIONS, dictfs, tree, KEYWORDS, K_REGEX, INCLUDE, EXCLUDE, arg, ret, pc,
                  todo, path, item_path, lines, ct, found, file_results, results, stats >>

\* OPTIONS.names: file_results += name_search(item, item_path)
NameSearch ==
  /\ pc = "files" /\ files # << >>
  /\ is_included(Head(files).name)
  /\ OPTIONS.names
  /\ item_path' = join(path, Head(files).name)
  /\ file_results' = name_search(Head(files).name, item_path')
  /\ results' = results \o file_results'
  /\ files' = Tail(files)
  /\ seen' = Scanned(item_path')
  /\ UNCHANGED << OPTIONS, dictfs, tree, KEYWORDS, K_REGEX, INCLUDE, EXCLUDE, arg, ret, pc,
                  todo, path, lines, ct, found, stats >>

\* OpenFails counting the file although it could not be read
OpenFails_counted ==
  /\ pc = "files" /\ files # << >>
  /\ is_included(Head(files).name)
  /\ ~OPTIONS.names
  /\ ~Head(files).ok
  /\ item_path' = join(path, Head(files).name)
  /\ file_results' = << >>
  /\ results' = results \o file_results'
  /\ files' = Tail(files)
  /\ seen' = Scanned(item_path')
  /\ stats' = [stats EXCEPT !.nb_file = @ + 1]
  /\ UNCHANGED << OPTIONS, dictfs, tree, KEYWORDS, K_REGEX, INCLUDE, EXCLUDE, arg, ret, pc,
                  todo, path, lines, ct, found >>

\* content_search -> megagenerator: open or readlines raises IOError or
\* UnicodeDecodeError, the generator ends, content_search returns []
OpenFails ==
  /\ pc = "files" /\ files # << >>
  /\ is_included(Head(files).name)
  /\ ~OPTIONS.names
  /\ ~Head(files).ok
  /\ item_path' = join(path, Head(files).name)
  /\ file_results' = << >>
  /\ results' = results \o file_results'
  /\ files' = Tail(files)
  /\ seen' = Scanned(item_path')
  /\ UNCHANGED << OPTIONS, dictfs, tree, KEYWORDS, K_REGEX, INCLUDE, EXCLUDE, arg, ret, pc,
                  todo, path, lines, ct, found, stats >>

\* content_search -> megagenerator: ct = -1; lines = fd.readlines()
OpenFile ==
  /\ pc = "files" /\ files # << >>
  /\ is_included(Head(files).name)
  /\ ~OPTIONS.names
  /\ Head(files).ok
  /\ item_path' = join(path, Head(files).name)
  /\ file_results' = << >>
  /\ lines' = Head(files).lines
  /\ ct' = -1
  /\ seen' = Scanned(item_path')
  /\ pc' = "lines"
  /\ UNCHANGED << OPTIONS, dictfs, tree, KEYWORDS, K_REGEX, INCLUDE, EXCLUDE, arg, ret,
                  todo, path, files, found, results, stats >>

\* for line in lines: the line is empty once stripped: continue
BlankLine ==
  /\ pc = "lines" /\ ct + 1 < Len(lines)
  /\ Len(line_at(lines, ct + 1)) = 0
  /\ ct' = ct + 1
  /\ UNCHANGED << OPTIONS, dictfs, tree, KEYWORDS, K_REGEX, INCLUDE, EXCLUDE, arg, ret, pc,
                  todo, path, files, item_path, lines, found, file_results, results,
                  stats, seen >>

\* for line in lines: nothing is found in the line: stats.nb_line += 1
PlainLine ==
  /\ pc = "lines" /\ ct + 1 < Len(lines)
  /\ Len(line_at(lines, ct + 1)) # 0
  /\ Len(pattern_search(line_at(lines, ct + 1))) = 0
  /\ ct' = ct + 1
  /\ stats' = [stats EXCEPT !.nb_line = @ + 1]
  /\ UNCHANGED << OPTIONS, dictfs, tree, KEYWORDS, K_REGEX, INCLUDE, EXCLUDE, arg, ret, pc,
                  todo, path, files, item_path, lines, found, file_results, results, seen >>

\* for line in lines: something is found: yield ct+1, line, sorted(found), ...
YieldLine ==
  /\ pc = "lines" /\ ct + 1 < Len(lines)
  /\ Len(line_at(lines, ct + 1)) # 0
  /\ Len(pattern_search(line_at(lines, ct + 1))) # 0
  /\ ct' = ct + 1
  /\ found' = pattern_search(line_at(lines, ct + 1))
  /\ pc' = "yield"
  /\ UNCHANGED << OPTIONS, dictfs, tree, KEYWORDS, K_REGEX, INCLUDE, EXCLUDE, arg, ret,
                  todo, path, files, item_path, lines, file_results, results, stats, seen >>

\* AppendResult storing one Result for every Match of the line
AppendResult_per_match ==
  /\ pc = "yield"
  /\ file_results' = file_results \o
                     [j \in 1..Len(found) |->
                        Result(ct + 1, line_at(lines, ct), sorted(found), item_path,
                               before_at(lines, ct), after_at(lines, ct))]
  /\ pc' = "appended"
  /\ UNCHANGED << OPTIONS, dictfs, tree, KEYWORDS, K_REGEX, INCLUDE, EXCLUDE, arg, ret,
                  todo, path, files, item_path, lines, ct, found, results, stats, seen >>

\* AppendResult with the 0-based index ct as the line number
AppendResult_zero_based ==
  /\ pc = "yield"
  /\ file_results' = Append(file_results,
                            Result(ct, line_at(lines, ct), sorted(found), item_path,
                                   before_at(lines, ct), after_at(lines, ct)))
  /\ pc' = "appended"
  /\ UNCHANGED << OPTIONS, dictfs, tree, KEYWORDS, K_REGEX, INCLUDE, EXCLUDE, arg, ret,
                  todo, path, files, item_path, lines, ct, found, results, stats, seen >>

\* content_search: file_results.append(Result(nb, line, content, path, ...))
AppendResult ==
  /\ pc = "yield"
  /\ file_results' = Append(file_results,
                            Result(ct + 1, line_at(lines, ct), sorted(found), item_path,
                                   before_at(lines, ct), after_at(lines, ct)))
  /\ pc' = "appended"
  /\ UNCHANGED << OPTIONS, dictfs, tree, KEYWORDS, K_REGEX, INCLUDE, EXCLUDE, arg, ret,
                  todo, path, files, item_path, lines, ct, found, results, stats, seen >>

\* CountResult counting the keywords after the first one only
CountResult_less_one ==
  /\ pc = "appended"
  /\ stats' = [stats EXCEPT !.nb_result = @ + Len(found) - 1]
  /\ pc' = "counted_result"
  /\ UNCHANGED << OPTIONS, dictfs, tree, KEYWORDS, K_REGEX, INCLUDE, EXCLUDE, arg, ret,
                  todo, path, files, item_path, lines, ct, found, file_results, results,
                  seen >>

\* the generator is resumed: stats.nb_result += len(found)
CountResult ==
  /\ pc = "appended"
  /\ stats' = [stats EXCEPT !.nb_result = @ + Len(found)]
  /\ pc' = "counted_result"
  /\ UNCHANGED << OPTIONS, dictfs, tree, KEYWORDS, K_REGEX, INCLUDE, EXCLUDE, arg, ret,
                  todo, path, files, item_path, lines, ct, found, file_results, results,
                  seen >>

\* CountResLine counting the matches of the line
CountResLine_per_match ==
  /\ pc = "counted_result"
  /\ stats' = [stats EXCEPT !.nb_resline = @ + Len(found)]
  /\ pc' = "counted_resline"
  /\ UNCHANGED << OPTIONS, dictfs, tree, KEYWORDS, K_REGEX, INCLUDE, EXCLUDE, arg, ret,
                  todo, path, files, item_path, lines, ct, found, file_results, results,
                  seen >>

\* stats.nb_resline += 1
CountResLine ==
  /\ pc = "counted_result"
  /\ stats' = [stats EXCEPT !.nb_resline = @ + 1]
  /\ pc' = "counted_resline"
  /\ UNCHANGED << OPTIONS, dictfs, tree, KEYWORDS, K_REGEX, INCLUDE, EXCLUDE, arg, ret,
                  todo, path, files, item_path, lines, ct, found, file_results, results,
                  seen >>

\* stats.nb_line += 1, for a line with results
CountLine ==
  /\ pc = "counted_resline"
  /\ stats' = [stats EXCEPT !.nb_line = @ + 1]
  /\ pc' = "lines"
  /\ UNCHANGED << OPTIONS, dictfs, tree, KEYWORDS, K_REGEX, INCLUDE, EXCLUDE, arg, ret,
                  todo, path, files, item_path, lines, ct, found, file_results, results,
                  seen >>

\* EndOfFile putting the Results of the file before those of the earlier files
EndOfFile_newest_first ==
  /\ pc = "lines" /\ ct + 1 >= Len(lines)
  /\ stats' = [stats EXCEPT !.nb_file = @ + 1]
  /\ results' = file_results \o results
  /\ files' = Tail(files)
  /\ pc' = "files"
  /\ UNCHANGED << OPTIONS, dictfs, tree, KEYWORDS, K_REGEX, INCLUDE, EXCLUDE, arg, ret,
                  todo, path, item_path, lines, ct, found, file_results, seen >>

\* the lines are exhausted: stats.nb_file += 1; the generator ends,
\* content_search returns file_results and search adds them to results
EndOfFile ==
  /\ pc = "lines" /\ ct + 1 >= Len(lines)
  /\ stats' = [stats EXCEPT !.nb_file = @ + 1]
  /\ results' = results \o file_results
  /\ files' = Tail(files)
  /\ pc' = "files"
  /\ UNCHANGED << OPTIONS, dictfs, tree, KEYWORDS, K_REGEX, INCLUDE, EXCLUDE, arg, ret,
                  todo, path, item_path, lines, ct, found, file_results, seen >>

Next ==
  \/ Initialize
  \/ StartSearch
  \/ WalkDir
  \/ WalkEnd
  \/ FilesEnd
  \/ SkipItem
  \/ NameSearch
  \/ OpenFails
  \/ OpenFile
  \/ BlankLine
  \/ PlainLine
  \/ YieldLine
  \/ AppendResult
  \/ CountResult
  \/ CountResLine
  \/ CountLine
  \/ EndOfFile

(***************************************************************************)
(* The scans that are checked: Spec                                        *)
(***************************************************************************)

\* The most files in the root directory.
MaxFiles == 2

File(name, ok, ls) == [name |-> name, ok |-> ok, lines |-> ls]

n_a_txt == << "a", ".", "t", "x", "t" >>

n_b_txt == << "b", ".", "t", "x", "t" >>

n_c_py == << "c", ".", "p", "y" >>

n_env == << ".", "e", "n", "v" >>

n_bad_txt == << "b", "a", "d", ".", "t", "x", "t" >>

n_sql_css == << "s", "q", "l", ".", "c", "s", "s" >>

n_sql_txt == << "s", "q", "l", ".", "t", "x", "t" >>

n_git == << ".", "g", "i", "t" >>

n_sub == << "s", "u", "b" >>

n_obj == << "o", "b", "j" >>

t_no_match == << "n", "o", " ", "m", "a", "t", "c", "h", " ", "h", "e", "r", "e" >>

t_contains == << "c", "o", "n", "t", "a", "i", "n", "s", " ", "p", "a", "s", "s", "w", "o", "r", "d", "=", "1", "2", "3" >>

\* sql = "sql" // s
t_code == << "s", "q", "l", " ", "=", " ", "\"", "s", "q", "l", "\"", " ", "/", "/", " ", "s" >>

\* /* s */ """d"""
t_comments == << "/", "*", " ", "s", " ", "*", "/", " ", "\"", "\"", "\"", "d", "\"", "\"", "\"" >>

f_a == File(n_a_txt, TRUE, << t_no_match >>)

f_b == File(n_b_txt, TRUE, << t_contains >>)

\* two blank lines (one empty, one of spaces), then a line with matches
f_c == File(n_c_py, TRUE, << << >>, << " ", " " >>, << " " >> \o t_code \o << " " >> >>)

f_env == File(n_env, TRUE, << s_password >>)

\* a file that cannot be opened, or cannot be decoded
f_bad == File(n_bad_txt, FALSE, << s_password, s_sql >>)

f_css == File(n_sql_css, TRUE, << s_sql >>)

f_sql == File(n_sql_txt, TRUE, << t_comments, << >>, s_sql \o << " " >> \o s_password >>)

RootFiles == { f_a, f_b, f_c, f_env, f_bad, f_sql }

\* the lists of at most n different files
FileLists(n) ==
  { fs \in SeqsUpTo(RootFiles, n) : \A i, j \in 1..Len(fs) : i # j => fs[i] # fs[j] }

Dir(dirs, fs) == [dirs |-> dirs, files |-> fs]

p_root == << >>

p_git == << n_git >>

p_obj == << n_git, n_obj >>

p_sub == << n_sub >>

\* A tree with the given files in its root and nothing else.
FlatTree(fs) == [p \in { p_root } |-> Dir(<< >>, fs)]

\* A tree with the given files and two directories in its root: .git, which
\* holds a file and the directory obj, and sub, which holds a hidden file, a
\* file that cannot be read, a file excluded by default and a plain file.
DeepTree(fs) ==
  [p \in { p_root, p_git, p_obj, p_sub } |->
     CASE p = p_root -> Dir(<< n_git, n_sub >>, fs)
       [] p = p_git  -> Dir(<< n_obj >>, << f_b >>)
       [] p = p_obj  -> Dir(<< >>, << f_sql >>)
       [] p = p_sub  -> Dir(<< >>, << f_env, f_bad, f_css, f_sql >>)]

Trees == { FlatTree(fs) : fs \in FileLists(MaxFiles) } \cup { DeepTree(fs) : fs \in FileLists(MaxFiles) }

w_sql_s == << "s", "q", "l", ",", "s" >>

\* --include that names the hidden file
i_env_txt == << ".", "e", "n", "v", ",", "*", ".", "t", "x", "t" >>

\* --tag "="
tag_eq == << "=" >>

\* Keyword and names mode with either word list and include option; comment
\* and strings mode, which read no keyword; comment mode with a custom tag;
\* keyword mode with a dictionary.
ScanOptions ==
  { [DefaultOptions EXCEPT !.word = w, !.include = i, !.names = n] :
      w \in { s_password, w_sql_s }, i \in { None, i_env_txt }, n \in BOOLEAN }
  \cup
  { [DefaultOptions EXCEPT !.word = s_password, !.include = i, !.comment = c, !.strings = ~c] :
      i \in { None, i_env_txt }, c \in BOOLEAN }
  \cup
  { [DefaultOptions EXCEPT !.word = s_password, !.comment = TRUE, !.tag = tag_eq],
    [DefaultOptions EXCEPT !.dict = d_path] }

\* Keyword mode with a dictionary that cannot be read, alone and with a word
\* list.
UnreadableDictOptions ==
  { [DefaultOptions EXCEPT !.dict = x_path],
    [DefaultOptions EXCEPT !.word = s_sql, !.dict = x_path] }

\* The dictionary files of the scans: the default one, d, which holds the
\* keyword password, and x, which cannot be read.
ScanDictFs ==
  [p \in { d_path, x_path, DEFAULT_DICTIONARY } |->
     IF p = d_path THEN [ok |-> TRUE, lines |-> << s_password >>]
     ELSE IF p = x_path THEN [ok |-> FALSE, lines |-> << s_password >>]
     ELSE GlobalMg]

\* the trees scanned with a dictionary that cannot be read
UnreadableDictTrees == { FlatTree(<< f_a, f_b >>), FlatTree(<< f_sql, f_c >>), DeepTree(<< f_b >>) }

Init ==
  \/ \E o \in ScanOptions, tr \in Trees : Start(o, ScanDictFs, tr, << >>)
  \/ \E o \in UnreadableDictOptions, tr \in UnreadableDictTrees : Start(o, ScanDictFs, tr, << >>)

Spec == Init /\ [][Next]_vars

(***************************************************************************)
(* search as a function of the tree: what a whole walk returns             *)
(***************************************************************************)

\* The Results megagenerator and content_search give for the lines ls of
\* the file at p, from line index c (0-based) on.
RECURSIVE content_results(_, _, _)
content_results(ls, c, p) ==
  IF c >= Len(ls) THEN << >>
  ELSE
    LET line == line_at(ls, c)
        fnd  == IF Len(line) = 0 THEN << >> ELSE pattern_search(line)
    IN  (IF Len(fnd) # 0
         THEN << Result(c + 1, line, sorted(fnd), p, before_at(ls, c), after_at(ls, c)) >>
         ELSE << >>)
        \o content_results(ls, c + 1, p)

\* The lines of ls that are counted in nb_line: those not empty once stripped.
RECURSIVE counted_lines(_)
counted_lines(ls) ==
  IF ls = << >> THEN 0
  ELSE (IF Len(strip(Head(ls))) = 0 THEN 0 ELSE 1) + counted_lines(Tail(ls))

RECURSIVE sum_found(_)
sum_found(rs) == IF rs = << >> THEN 0 ELSE Len(Head(rs).found) + sum_found(Tail(rs))

\* The files of directory p that pass is_included, with their paths.
RECURSIVE included_entries(_, _)
included_entries(p, fs) ==
  IF fs = << >> THEN << >>
  ELSE (IF is_included(Head(fs).name)
        THEN << [path |-> join(p, Head(fs).name), file |-> Head(fs)] >>
        ELSE << >>)
       \o included_entries(p, Tail(fs))

\* The files the walk hands to a scanner, in the order of the walk. `n`
\* bounds the number of directories (a tree has finitely many).
RECURSIVE walk_entries(_, _, _)
walk_entries(tr, dirs, n) ==
  IF dirs = << >> \/ n = 0 THEN << >>
  ELSE included_entries(Head(dirs), not_hidden_files(tr[Head(dirs)].files))
       \o walk_entries(tr, walk_dirs(tr, Head(dirs)) \o Tail(dirs), n - 1)

entries_of(tr) == walk_entries(tr, << << >> >>, Cardinality(DOMAIN tr))

\* file_results of one entry
entry_results(e) ==
  IF OPTIONS.names THEN name_search(e.file.name, e.path)
  ELSE IF e.file.ok THEN content_results(e.file.lines, 0, e.path)
  ELSE << >>

RECURSIVE entries_results(_)
entries_results(es) ==
  IF es = << >> THEN << >> ELSE entry_results(Head(es)) \o entries_results(Tail(es))

RECURSIVE entries_stats(_)
entries_stats(es) ==
  IF es = << >> THEN NewStats
  ELSE LET rest == entries_stats(Tail(es))
           f    == Head(es).file
           rs   == entry_results(Head(es))
       IN  IF OPTIONS.names \/ ~f.ok THEN rest
           ELSE [nb_file    |-> rest.nb_file + 1,
                 nb_line    |-> rest.nb_line + counted_lines(f.lines),
                 nb_resline |-> rest.nb_resline + Len(rs),
                 nb_result  |-> rest.nb_result + sum_found(rs)]

\* results, stats = search(basepath) on the tree tr
search_results(tr) == entries_results(entries_of(tr))

search_stats(tr) == entries_stats(entries_of(tr))

\* The walk, step by step, ends with what search returns as a function.
WalkIsSearch ==
  pc = "done" => results = search_results(tree) /\ stats = search_stats(tree)

(***************************************************************************)
(* Properties of the walk                                                  *)
(***************************************************************************)

ContentMode == ~OPTIONS.names

\* The states in which the caller of the generator, or of search, can look
\* at the Stats: a result was yielded, the walk is between two files, the
\* scan is over.
Observable == pc \in { "yield", "appended", "files", "walk", "done" }

\* C2: wherever the Stats can be observed during a scan (at each yield,
\* between two files, at the end), nb_result >= nb_resline and
\* nb_resline <= nb_line.
C2_StatsInvariant ==
  Observable => stats.nb_result >= stats.nb_resline /\ stats.nb_resline <= stats.nb_line

\* A result is yielded after earlier lines gave several matches.
C2_Witness ==
  /\ pc = "yield"
  /\ stats.nb_resline >= 1
  /\ stats.nb_result > stats.nb_resline

EndToEndTrees == { FlatTree(<< f_a, f_b >>), FlatTree(<< f_b, f_a >>) }

\* the keyword password, from --word or from a dictionary; defaults otherwise
EndToEndOptions ==
  { [DefaultOptions EXCEPT !.word = s_password], [DefaultOptions EXCEPT !.dict = d_path] }

\* C3: at the end of a content-mode scan nb_resline is the number of Results
\* and nb_result the number of Matches in all of them; the tree {a.txt: "no
\* match here", b.txt: "contains password=123"} with keyword password gives
\* one Result (b.txt, line 1, password) and Stats 2, 2, 1, 1.
C3_CountsMatchResults ==
  pc = "done" /\ ContentMode =>
    /\ stats.nb_resline = Len(results)
    /\ stats.nb_result = sum_found(results)
    /\ (tree \in EndToEndTrees /\ OPTIONS \in EndToEndOptions =>
          /\ Len(results) = 1
          /\ results[1].path = << n_b_txt >>
          /\ results[1].line_no = 1
          /\ results[1].found = << << 9, s_password >> >>
          /\ stats = [nb_file |-> 2, nb_line |-> 2, nb_resline |-> 1, nb_result |-> 1])

\* A scan ended with a Result that holds several Matches.
C3_Witness ==
  /\ pc = "done" /\ ContentMode
  /\ \E k \in 1..Len(results) : Len(results[k].found) >= 2
  /\ Len(results) >= 2

RECURSIVE physical_lines(_)
physical_lines(es) ==
  IF es = << >> THEN 0
  ELSE (IF Head(es).file.ok THEN Len(Head(es).file.lines) ELSE 0) + physical_lines(Tail(es))

\* C4: at the end of a content-mode scan nb_line is the number of physical
\* lines of the participating files that were read, blank lines included.
C4_EveryPhysicalLine ==
  pc = "done" /\ ContentMode => stats.nb_line = physical_lines(entries_of(tree))

IsReadable(f) == f.ok

\* the tree without the files that cannot be read
without_bad(tr) == [p \in DOMAIN tr |-> [tr[p] EXCEPT !.files = SelectSeq(@, IsReadable)]]

\* C5: a participating file that cannot be opened or decoded does not abort
\* the scan, gives no Result and changes no counter: Results and Stats are
\* those of the walk over the tree without that file.
C5_BadFileSkipped ==
  pc = "done" /\ ContentMode =>
    /\ results = search_results(without_bad(tree))
    /\ stats = search_stats(without_bad(tree))

\* A file could not be read, and a file after it gave a Result.
C5_Witness ==
  /\ pc = "done" /\ ContentMode
  /\ << n_sub, n_bad_txt >> \in seen.scanned
  /\ \E k \in 1..Len(results) : results[k].path = << n_sub, n_sql_txt >>
  /\ stats.nb_file >= 1

HiddenPath(p) == \E k \in 1..Len(p) : hidden(p[k])

\* C6: a file whose name starts with "." and every file below a directory
\* whose name starts with "." is never passed to the filter or to a scanner,
\* is never the file whose scan changes the Stats, and is the path of no
\* Result, whatever the mode and the include patterns.
C6_HiddenNeverScanned ==
  /\ \A p \in seen.filtered \cup seen.scanned : ~HiddenPath(p)
  /\ ~HiddenPath(item_path)
  /\ \A k \in 1..Len(results) : ~HiddenPath(results[k].path)
  /\ \A k \in 1..Len(file_results) : ~HiddenPath(file_results[k].path)

\* A scan ended on a tree with .env in its root and the directory .git, the
\* include patterns naming .env.
C6_Witness ==
  /\ pc = "done"
  /\ OPTIONS.include = i_env_txt
  /\ p_git \in DOMAIN tree
  /\ \E k \in 1..Len(tree[p_root].files) : tree[p_root].files[k] = f_env
  /\ results # << >>

(***************************************************************************)
(* Analysis (top_counter, top_keywords, top_files): SpecTop                *)
(***************************************************************************)

\* full_list.count(value)
RECURSIVE count(_, _)
count(full_list, value) ==
  IF full_list = << >> THEN 0
  ELSE (IF Head(full_list) = value THEN 1 ELSE 0) + count(Tail(full_list), value)

\* summary of top_counter: one (count, value) tuple per value of set(full_list)
summary(full_list) ==
  { << count(full_list, full_list[k]), full_list[k] >> : k \in 1..Len(full_list) }

\* sorted(summary): the tuples from the smallest to the largest
RECURSIVE sorted_set(_)
sorted_set(S) ==
  IF S = { } THEN << >>
  ELSE LET least == CHOOSE x \in S : \A y \in S \ { x } : PairLess(x, y)
       IN  << least >> \o sorted_set(S \ { least })

\* sorted(summary, reverse=True): the tuples from the largest to the smallest
RECURSIVE sorted_reverse(_)
sorted_reverse(S) ==
  IF S = { } THEN << >>
  ELSE LET greatest == CHOOSE x \in S : \A y \in S \ { x } : PairLess(y, x)
       IN  << greatest >> \o sorted_reverse(S \ { greatest })

\* top_counter sorting without reverse=True
top_counter_unreversed(full_list) == sorted_set(summary(full_list))

top_counter(full_list) == sorted_reverse(summary(full_list))

\* Result.all_keywords
all_keywords(result) == [j \in 1..Len(result.found) |-> result.found[j][2]]

\* all_keywords += result.all_keywords, over the results
RECURSIVE all_keywords_of(_)
all_keywords_of(rs) ==
  IF rs = << >> THEN << >> ELSE all_keywords(Head(rs)) \o all_keywords_of(Tail(rs))

top_keywords(rs) == top_counter(all_keywords_of(rs))

\* relpath(x.path), the scan root being the working directory
relpath(p) == path_text(p)

top_files(rs) == top_counter([k \in 1..Len(rs) |-> relpath(rs[k].path)])

\* The longest generated list of items.
MaxItems == 4

v_a == << "a" >>

v_b == << "b" >>

TopValues == { v_a, v_b, << "a", "b" >> }

TopItems == SeqsUpTo(TopValues, MaxItems)

\* a Result of file p at line n in which keyword k was found c times
TopResult(p, n, k, c) ==
  Result(n, [j \in 1..c |-> k[1]], [j \in 1..c |-> << j - 1, k >>], p, << >>, << >>)

\* the example of the spec: Results with the occurrences a:5, b:3, a:1
ExampleResults ==
  << TopResult(<< n_a_txt >>, 1, v_a, 5), TopResult(<< n_a_txt >>, 2, v_b, 3),
     TopResult(<< n_b_txt >>, 1, v_a, 1) >>

TopResults ==
  { ExampleResults,
    << TopResult(<< n_b_txt >>, 1, v_b, 2), TopResult(<< n_a_txt >>, 4, v_a, 2) >>,
    << >> }

\* arg is a list of items, or the Results of a scan
InitTop ==
  \/ \E items \in TopItems :
       Start(DefaultOptions, DefaultDictFs, NoTree, [kind |-> "items", val |-> items])
  \/ \E rs \in TopResults :
       Start(DefaultOptions, DefaultDictFs, NoTree, [kind |-> "results", val |-> rs])

CallTopCounter ==
  /\ pc = "ready" /\ arg.kind = "items"
  /\ ret' = top_counter(arg.val)
  /\ pc' = "return"
  /\ UNCHANGED << OPTIONS, dictfs, tree, KEYWORDS, K_REGEX, INCLUDE, EXCLUDE, arg, scan_vars >>

CallTopKeywords ==
  /\ pc = "ready" /\ arg.kind = "results"
  /\ ret' = top_keywords(arg.val)
  /\ pc' = "return_keywords"
  /\ UNCHANGED << OPTIONS, dictfs, tree, KEYWORDS, K_REGEX, INCLUDE, EXCLUDE, arg, scan_vars >>

CallTopFiles ==
  /\ pc = "ready" /\ arg.kind = "results"
  /\ ret' = top_files(arg.val)
  /\ pc' = "return_files"
  /\ UNCHANGED << OPTIONS, dictfs, tree, KEYWORDS, K_REGEX, INCLUDE, EXCLUDE, arg, scan_vars >>

NextTop == Initialize \/ CallTopCounter \/ CallTopKeywords \/ CallTopFiles

SpecTop == InitTop /\ [][NextTop]_vars

\* the number of places of the list that hold v
Occurrences(list, v) == Cardinality({ k \in 1..Len(list) : list[k] = v })

DistinctValues(list) == { list[k] : k \in 1..Len(list) }

\* r has exactly one (count, value) pair per distinct value of the list, with
\* the number of occurrences of the value as its count
TopCounts(list, r) ==
  /\ Len(r) = Cardinality(DistinctValues(list))
  /\ { r[k][2] : k \in 1..Len(r) } = DistinctValues(list)
  /\ \A k \in 1..Len(r) : r[k][1] = Occurrences(list, r[k][2])

TopDescending(r) == \A k \in 1..(Len(r) - 1) : r[k][1] >= r[k + 1][1]

TiesSmallerFirst(r) ==
  \A k \in 1..(Len(r) - 1) : r[k][1] = r[k + 1][1] => StrLess(r[k][2], r[k + 1][2])

TiesLargerFirst(r) ==
  \A k \in 1..(Len(r) - 1) : r[k][1] = r[k + 1][1] => StrLess(r[k + 1][2], r[k][2])

\* the keyword occurrences of the Results, in-line duplicates included
RECURSIVE KeywordOccurrences(_)
KeywordOccurrences(rs) ==
  IF rs = << >> THEN << >>
  ELSE [j \in 1..Len(Head(rs).found) |-> Head(rs).found[j][2]] \o KeywordOccurrences(Tail(rs))

\* C12 as stated: top_counter returns one (count, value) pair per distinct
\* value, count being the number of occurrences, by descending count, pairs
\* of equal count with the smaller value first; the keyword occurrences a:5,
\* b:3, a:1 give [(6,a),(3,b)].
C12_TiesSmallerFirst ==
  /\ pc = "return" =>
       TopCounts(arg.val, ret) /\ TopDescending(ret) /\ TiesSmallerFirst(ret)
  /\ pc = "return_keywords" =>
       /\ TopCounts(KeywordOccurrences(arg.val), ret)
       /\ TopDescending(ret) /\ TiesSmallerFirst(ret)
       /\ (arg.val = ExampleResults => ret = << << 6, v_a >>, << 3, v_b >> >>)

\* C12 amended: as above, but pairs of equal count are ordered by descending
\* value (the larger value first): the list is sorted in reverse order of
\* the (count, value) tuples.
C12_TiesLargerFirst ==
  /\ pc = "return" =>
       TopCounts(arg.val, ret) /\ TopDescending(ret) /\ TiesLargerFirst(ret)
  /\ pc = "return_keywords" =>
       /\ TopCounts(KeywordOccurrences(arg.val), ret)
       /\ TopDescending(ret) /\ TiesLargerFirst(ret)
       /\ (arg.val = ExampleResults => ret = << << 6, v_a >>, << 3, v_b >> >>)

\* top_counter returned two values of equal count after a value of larger
\* count.
C12_Witness ==
  /\ pc = "return"
  /\ Len(ret) = 3
  /\ ret[1][1] > ret[2][1] /\ ret[2][1] = ret[3][1]
  /\ ret[2][2] = v_b /\ ret[3][2] = v_a

(***************************************************************************)
(* Properties of the order of the walk                                     *)
(***************************************************************************)

\* the list s with its entries k and k + 1 enumerated in the other order
swapped(s, k) ==
  [j \in 1..Len(s) |-> IF j = k THEN s[k + 1] ELSE IF j = k + 1 THEN s[k] ELSE s[j]]

\* the same tree, two neighbouring files or directories of one of its
\* directories enumerated in the other order (every other enumeration order
\* is reached by such steps)
Reenumerated(tr) ==
  UNION { { [tr EXCEPT ![p].files = swapped(@, k)] : k \in 1..(Len(tr[p].files) - 1) }
          \cup { [tr EXCEPT ![p].dirs = swapped(@, k)] : k \in 1..(Len(tr[p].dirs) - 1) } :
          p \in DOMAIN tr }

\* s and t hold the same items, each as many times
SameItems(s, t) ==
  /\ Len(s) = Len(t)
  /\ \A k \in 1..Len(s) :
       Cardinality({ j \in 1..Len(s) : s[j] = s[k] }) = Cardinality({ j \in 1..Len(t) : t[j] = s[k] })

\* C13: a scan of the same unchanged tree with the same configuration gives
\* the same Result sequence and the same Stats again, and neither depends on
\* the order in which the filesystem enumerates the entries of a directory.
C13_OrderNormalized ==
  pc = "done" =>
    /\ results = search_results(tree) /\ stats = search_stats(tree)
    /\ \A tr \in Reenumerated(tree) :
         results = search_results(tr) /\ stats = search_stats(tr)

\* C13 amended: a scan of the same unchanged tree with the same
\* configuration, the filesystem enumerating the entries of every directory
\* in the same order, gives the same Result sequence and the same Stats
\* again; another enumeration order gives the same Stats and the same
\* Results, possibly in another order: the walk is not sorted.
C13_EnumerationOrder ==
  pc = "done" =>
    /\ results = search_results(tree) /\ stats = search_stats(tree)
    /\ \A tr \in Reenumerated(tree) :
         SameItems(results, search_results(tr)) /\ stats = search_stats(tr)

\* A scan ended with the Results of two files, which another enumeration
\* order of the root directory gives in the other order.
C13_Witness ==
  /\ pc = "done"
  /\ Len(results) >= 2
  /\ results[1].path # results[Len(results)].path
  /\ \E tr \in Reenumerated(tree) : search_results(tr) # results

(***************************************************************************)
(* Properties of the keyword sources of a scan                             *)
(***************************************************************************)

\* --dict is given and none of its files can be read
DictUnreadable ==
  /\ OPTIONS.dict # None
  /\ \A k \in 1..Len(split(OPTIONS.dict, ",")) : ~CHECKFILE(split(OPTIONS.dict, ",")[k])

\* C14: when the only keyword source is a named dictionary file (--dict, no
\* --word) that cannot be read, the run aborts before the walk: no keyword
\* set is used in its place, no file is scanned, no Results and no Stats are
\* produced; when --word still supplies keywords, the scan goes on with
\* exactly those keywords.
C14_UnreadableDictAborts ==
  /\ DictUnreadable /\ OPTIONS.word = None =>
       /\ KEYWORDS = << >>
       /\ pc \in { "init", "ready" }
       /\ seen.scanned = { } /\ results = << >> /\ stats = NewStats
  /\ DictUnreadable /\ OPTIONS.word # None /\ pc # "init" =>
       KEYWORDS = split(OPTIONS.word, ",")

\* C14 amended: when the only keyword source is a named dictionary file
\* (--dict, no --word) that cannot be read, the keywords of the default
\* dictionary are loaded in its place and the scan goes on with them (the
\* tree {a.txt, b.txt} of the end-to-end example gives the Result of
\* password in b.txt); when --word still supplies keywords, the scan goes on
\* with exactly those keywords.
C14_DefaultDictionaryUsed ==
  /\ DictUnreadable /\ OPTIONS.word = None /\ pc # "init" =>
       /\ KEYWORDS = parse_dict(DEFAULT_DICTIONARY, init_categories)
       /\ K_REGEX = KeywordRegexes(KEYWORDS)
       /\ (pc = "done" /\ tree = FlatTree(<< f_a, f_b >>) =>
             /\ Len(results) = 1
             /\ results[1].path = << n_b_txt >> /\ results[1].found = << << 9, s_password >> >>
             /\ stats.nb_file = 2)
  /\ DictUnreadable /\ OPTIONS.word # None /\ pc # "init" =>
       KEYWORDS = split(OPTIONS.word, ",")

\* A scan with the unreadable dictionary as its only keyword source ended
\* with a Result.
C14_Witness ==
  /\ pc = "done"
  /\ DictUnreadable /\ OPTIONS.word = None
  /\ tree = FlatTree(<< f_a, f_b >>)
  /\ results # << >>

(***************************************************************************)
(* Properties of the Results                                               *)
(***************************************************************************)

\* the Results of the scan so far: those of the files done and those of the
\* file being read
AllResults == results \o (IF pc \in { "files", "walk", "done" } THEN << >> ELSE file_results)

\* the scanner of the Results is pattern_keyword (keyword and names mode)
KeywordScanner == ~OPTIONS.comment /\ ~OPTIONS.strings

\* the text pattern_keyword was given for the Result: the line, or the name
\* of the file in names mode
ScannedText(r) == IF OPTIONS.names THEN r.path[Len(r.path)] ELSE r.line

\* x put into the list xs, sorted by offset, behind the Matches of the same
\* offset
RECURSIVE insert_by_offset(_, _)
insert_by_offset(x, xs) ==
  IF xs = << >> THEN << x >>
  ELSE IF x[1] < Head(xs)[1] THEN << x >> \o xs
  ELSE << Head(xs) >> \o insert_by_offset(x, Tail(xs))

\* the Matches sorted by offset alone, Matches of the same offset left in
\* the order of the list (a stable sort)
RECURSIVE stable_by_offset(_)
stable_by_offset(xs) ==
  IF xs = << >> THEN << >>
  ELSE insert_by_offset(xs[Len(xs)], stable_by_offset(SubSeq(xs, 1, Len(xs) - 1)))

\* C15 as stated: the Matches of a keyword-mode Result are ordered by
\* non-decreasing offset, Matches of the same offset in discovery order (the
\* order of their keywords in the keyword list), and all of them are kept.
C15_StableByOffset ==
  KeywordScanner =>
    \A k \in 1..Len(AllResults) :
      AllResults[k].found = stable_by_offset(pattern_keyword(ScannedText(AllResults[k])))

\* C15 amended: the Matches of a keyword-mode Result are ordered by
\* non-decreasing offset, Matches of the same offset by ascending keyword
\* text (the order of the (offset, keyword) tuples), and all the Matches of
\* the scanner are kept.
C15_SortedAsTuples ==
  KeywordScanner =>
    \A k \in 1..Len(AllResults) :
      LET fnd == AllResults[k].found IN
      /\ \A j \in 1..(Len(fnd) - 1) :
           /\ fnd[j][1] <= fnd[j + 1][1]
           /\ fnd[j][1] = fnd[j + 1][1] => ~StrLess(fnd[j + 1][2], fnd[j][2])
      /\ SameItems(fnd, pattern_keyword(ScannedText(AllResults[k])))

\* A Result holds two Matches of the same offset whose keywords were found
\* in the other order.
C15_Witness ==
  /\ KeywordScanner /\ KEYWORDS = << s_sql, << "s" >> >>
  /\ \E k \in 1..Len(AllResults) :
       /\ AllResults[k].found[1] = << 0, << "s" >> >>
       /\ AllResults[k].found[2] = << 0, s_sql >>

\* the file of the tree that has the path p
FileOf(p) ==
  LET fs == tree[SubSeq(p, 1, Len(p) - 1)].files
  IN  CHOOSE f \in { fs[k] : k \in 1..Len(fs) } : f.name = p[Len(p)]

\* the 1-based indices, among all the physical lines of the file, of the
\* lines in which the scanner finds something
MatchingLines(f) ==
  { n \in 1..Len(f.lines) :
      strip(f.lines[n]) # << >> /\ pattern_search(strip(f.lines[n])) # << >> }

\* the line numbers of the Results of the file at path p
LineNumbers(rs, p) == { rs[k].line_no : k \in { j \in 1..Len(rs) : rs[j].path = p } }

\* C16: a Result of a content mode carries as line_no the 1-based index of
\* its line among the physical lines of the file, blank lines included (the
\* match on the third line of c.py, after two blank lines, has line_no 3);
\* a Result of names mode carries line_no 0.
C16_LineNumber ==
  /\ ContentMode =>
       /\ \A k \in 1..Len(AllResults) :
            LET r == AllResults[k]
                f == FileOf(r.path)
            IN  /\ r.line_no \in MatchingLines(f)
                /\ r.line = strip(f.lines[r.line_no])
                /\ (f = f_c => r.line_no = 3)
       /\ pc = "done" =>
            \A p \in seen.scanned :
              FileOf(p).ok => LineNumbers(results, p) = MatchingLines(FileOf(p))
  /\ OPTIONS.names => \A k \in 1..Len(AllResults) : AllResults[k].line_no = 0

\* The Result of the third line of c.py, which follows two blank lines, was
\* stored.
C16_Witness ==
  /\ ContentMode
  /\ \E k \in 1..Len(results) :
       /\ results[k].path = << n_c_py >>
       /\ results[k].line_no = 3
       /\ results[k].before = << >>

\* C17: in the Results accumulated so far, after every step of the walk, the
\* Results of one file are contiguous and in strictly increasing line_no
\* order, so that there is at most one Result per file and line.
C17_FileResultsContiguous ==
  \A i, j \in 1..Len(AllResults) :
    i < j /\ AllResults[i].path = AllResults[j].path =>
      /\ AllResults[i].line_no < AllResults[j].line_no
      /\ \A m \in i..j : AllResults[m].path = AllResults[i].path

\* Two Results of one file were stored behind the Result of another file,
\* and the walk goes on.
C17_Witness ==
  /\ pc # "done"
  /\ Len(AllResults) >= 3
  /\ \E i \in 2..(Len(AllResults) - 1) :
       /\ AllResults[i].path = AllResults[i + 1].path
       /\ AllResults[i].line_no < AllResults[i + 1].line_no
       /\ AllResults[i - 1].path # AllResults[i].path

=============================================================================
